---- MODULE Spec2Model ----
(***************************************************************************)
(* Model of the incident-map server.  The repository holds five revisions  *)
(* of server.js:                                                           *)
(*   "strict"      src/server.js            upload validates lat/lon,      *)
(*                                          /video/:id with Range support  *)
(*   "strictquery" src/unnamed/part_000     as strict, /map-points needs   *)
(*                                          bbox, sorts and caps           *)
(*   "dedup"       src/unnamed/part_001:1   async sha256 + dedup upload    *)
(*   "basic"       src/unnamed/part_001:125 rename upload, /video sendFile *)
(*   "media"       src/unnamed/part_002     image/video upload, /media     *)
(* One process runs one revision; `variant` says which.                    *)
(*                                                                         *)
(* JavaScript values are pairs <<tag, n>>: a number is <<"num", n>>, and   *)
(* NaN, null and undefined are their own tags.  Strings that the code      *)
(* parses are sequences of one-character strings ("bytes=" is one token).  *)
(* Record fields no handler reads again (note, kind, mime, geohash) are    *)
(* left out of the records.                                                *)
(***************************************************************************)
EXTENDS Integers, Sequences, FiniteSets, TLC

\* ------------------------------------------------------------------ bounds
\* uploads received in one behaviour
MaxUploads == 4
\* largest number a client writes into a Range header
MaxRangeNum == 4
\* largest blob size (bytes) a client uploads in the streaming specification
MaxBlobSize == 3
\* wall clock: the process starts at StartHour and is observed until EndHour
StartHour == 5
EndHour == 7

\* ------------------------------------------------------- JavaScript values
Num(n) == <<"num", n>>
NaN == <<"NaN", 0>>
Null == <<"null", 0>>
Undefined == <<"undefined", 0>>
IsNum(v) == v[1] = "num"

\* Number.isFinite(v): a number that is not NaN (no infinities are modelled)
NumberIsFinite(v) == IsNum(v)
\* Number.isNaN(v): true of NaN only, false of undefined and null
NumberIsNaN(v) == v = NaN

\* ToNumber as the relational operators apply it: null -> 0, undefined -> NaN
ToNumber(v) == IF v = Null THEN Num(0) ELSE IF IsNum(v) THEN v ELSE NaN
\* a >= b and a <= b in JavaScript: false as soon as one side is NaN
JsGE(a, b) == /\ IsNum(ToNumber(a)) /\ IsNum(ToNumber(b))
              /\ ToNumber(a)[2] >= ToNumber(b)[2]
JsLE(a, b) == JsGE(b, a)

\* ------------------------------------------------------------ JS strings
Digits == <<"0", "1", "2", "3", "4", "5", "6", "7", "8", "9">>
IsDigit(c) == \E i \in 1..10 : Digits[i] = c
DigitVal(c) == (CHOOSE i \in 1..10 : Digits[i] = c) - 1
IsSpace(c) == c = " "

RECURSIVE TrimLeft(_)
TrimLeft(s) == IF s # <<>> /\ IsSpace(Head(s)) THEN TrimLeft(Tail(s)) ELSE s

RECURSIVE TrimRight(_)
TrimRight(s) == IF s # <<>> /\ IsSpace(s[Len(s)])
                THEN TrimRight(SubSeq(s, 1, Len(s) - 1)) ELSE s

\* the longest prefix of s made of digits
RECURSIVE DigitPrefix(_)
DigitPrefix(s) == IF s # <<>> /\ IsDigit(Head(s))
                  THEN <<Head(s)>> \o DigitPrefix(Tail(s)) ELSE <<>>

\* the value of a sequence of digits, most significant first
RECURSIVE DigitsValue(_)
DigitsValue(s) == IF s = <<>> THEN 0
                  ELSE 10 * DigitsValue(SubSeq(s, 1, Len(s) - 1)) + DigitVal(s[Len(s)])

\* the decimal numeral of n >= 0, as String(n) writes it
RECURSIVE Dec(_)
Dec(n) == IF n < 10 THEN <<Digits[n + 1]>> ELSE Dec(n \div 10) \o <<Digits[(n % 10) + 1]>>

\* parseInt(s, 10): leading white space, an optional sign, then the longest
\* run of digits; NaN when there is no digit.  Trailing text is ignored.
ParseInt(s) ==
  LET t == TrimLeft(s)
      neg == t # <<>> /\ Head(t) = "-"
      u == IF t # <<>> /\ Head(t) \in {"+", "-"} THEN Tail(t) ELSE t
      d == DigitPrefix(u)
  IN IF d = <<>> THEN NaN
     ELSE Num(IF neg THEN 0 - DigitsValue(d) ELSE DigitsValue(d))

\* parseFloat(s): as parseInt on the inputs modelled here (no "." or
\* exponent occurs in them)
ParseFloat(s) == ParseInt(s)

\* Number(s): white space trimmed on both sides; the empty string is 0; the
\* whole rest must be a numeral, else NaN
ToNumberStr(s) ==
  LET t == TrimRight(TrimLeft(s))
      neg == t # <<>> /\ Head(t) = "-"
      u == IF t # <<>> /\ Head(t) \in {"+", "-"} THEN Tail(t) ELSE t
  IN IF t = <<>> THEN Num(0)
     ELSE IF u # <<>> /\ DigitPrefix(u) = u
          THEN Num(IF neg THEN 0 - DigitsValue(u) ELSE DigitsValue(u))
          ELSE NaN

\* s.split(sep): the pieces of s between the occurrences of the character sep
RECURSIVE Split(_, _)
Split(s, sep) ==
  IF \A i \in 1..Len(s) : s[i] # sep THEN <<s>>
  ELSE LET k == CHOOSE i \in 1..Len(s) : s[i] = sep /\ \A j \in 1..(i - 1) : s[j] # sep
       IN <<SubSeq(s, 1, k - 1)>> \o Split(SubSeq(s, k + 1, Len(s)), sep)

\* s.replace(/bytes=/, ''): the first "bytes=" token removed
ReplaceBytes(s) ==
  IF \A i \in 1..Len(s) : s[i] # "bytes=" THEN s
  ELSE LET k == CHOOSE i \in 1..Len(s) : s[i] = "bytes=" /\ \A j \in 1..(i - 1) : s[j] # "bytes="
       IN SubSeq(s, 1, k - 1) \o SubSeq(s, k + 1, Len(s))

\* a form field or query parameter that the request does not carry
Missing == <<"(missing)">>
\* x ? .. : .. on a string parameter: missing and '' are falsy
Truthy(s) == s # Missing /\ s # <<>>
\* x ?? '0'
OrZero(s) == IF s = Missing THEN <<"0">> ELSE s

\* Date.prototype.toISOString and Date.parse: the ISO text of the instant ms
\* is the token "iso:" followed by the numeral of ms; any other text is no
\* date
ToISOString(ms) == <<"iso:">> \o Dec(ms)
DateParse(s) ==
  IF s # <<>> /\ Head(s) = "iso:" /\ Tail(s) # <<>> /\ DigitPrefix(Tail(s)) = Tail(s)
  THEN Num(DigitsValue(Tail(s))) ELSE NaN

\* JSON.stringify then JSON.parse of a number: NaN is written as null
JsonNum(v) == IF v = NaN THEN Null ELSE v

\* ------------------------------------------------------------------ state
VARIABLES
  variant,   \* which revision of server.js this process runs
  now,       \* Date.now(), in milliseconds
  db,        \* points.json as readDB() returns it: a sequence of records
  files,     \* the upload directory: path -> bytes of each existing file
  uploads,   \* the /upload requests received so far, in order of arrival
  get,       \* the /video/:id or /media/:id request being handled
  query      \* the last /map-points request and its response

vars == <<variant, now, db, files, uploads, get, query>>

MsPerHour == 3600 * 1000

\* a blob of n bytes; blobs of different sizes differ in content
Blob(n) == [i \in 1..n |-> i]

\* multer's staging path of upload u (Date.now() + '_' + originalname; taken
\* to be distinct for distinct requests) and the permanent path of record id
TempPath(u) == <<"tmp", u>>
BlobPath(id) == <<"blob", id>>

\* nanoid(): a fresh identifier per request; request u draws u
NanoId(u) == u

\* crypto sha256 over the whole stream: a function of the bytes, taken to be
\* collision free
Sha256(content) == <<"sha256">> \o content

\* fs.unlinkSync / fs.renameSync on the directory
Unlink(fs, p) == [q \in (DOMAIN fs) \ {p} |-> fs[q]]
Rename(fs, from, to) ==
  [q \in ((DOMAIN fs) \ {from}) \cup {to} |-> IF q = to THEN fs[from] ELSE fs[q]]

NoResp == [status |-> 0, id |-> 0, duplicate |-> "absent"]
Resp(status, id, dup) == [status |-> status, id |-> id, duplicate |-> dup]

NoGet == [pc |-> "idle", kind |-> "none", id |-> 0, range |-> Missing, path |-> <<"blob", 0>>,
          status |-> 0, contentRange |-> <<>>, contentLength |-> 0, body |-> <<>>,
          err |-> "none"]
NoQuery == [asked |-> FALSE, bbox |-> Missing, hours |-> Missing, at |-> 0, status |-> 0,
            hasPoints |-> FALSE, points |-> <<>>]

Variants == {"strict", "strictquery", "dedup", "basic", "media"}

InitWith(vs) ==
  /\ variant \in vs
  /\ now = StartHour * MsPerHour
  /\ db = <<>>
  /\ files = [q \in {} |-> <<>>]
  /\ uploads = <<>>
  /\ get = NoGet
  /\ query = NoQuery

\* ---------------------------------------------------------------- uploads
\* An upload request: hasFile says whether a file part came with it, content
\* the bytes of that part, body the form fields.  pc is "hashing" while
\* sha256File runs and "done" once the response is sent; err names the
\* step that threw, if any.
UploadReq(hasFile, content, body) ==
  [pc |-> "received", hasFile |-> hasFile, content |-> content, body |-> body,
   resp |-> NoResp, err |-> "none"]

Body(lat, lon, accuracy, captured_at, category) ==
  [lat |-> lat, lon |-> lon, accuracy |-> accuracy, captured_at |-> captured_at,
   category |-> category]

\* the response of request r and the step that failed
Answered(r, resp, err) == [r EXCEPT !.pc = "done", !.resp = resp, !.err = err]

\* arr.find(p => p.hash === hash): the index of the first such record, 0 if none
FindByHashNever(arr, hash) == 0
FindByHash(arr, hash) ==
  IF \E i \in 1..Len(arr) : arr[i].hash = hash
  THEN CHOOSE i \in 1..Len(arr) :
         arr[i].hash = hash /\ \A j \in 1..(i - 1) : arr[j].hash # hash
  ELSE 0

\* (req.body.category || 'other').toString()
CategoryOf(c) == IF c = "(missing)" \/ c = "" THEN "other" ELSE c

\* req.body.captured_at ? Date.parse(req.body.captured_at) : Date.now()
CapturedAtMs(s, t) == IF Truthy(s) THEN DateParse(s) ELSE Num(t)

\* the record the dedup revision pushes, as JSON.stringify writes it
DedupRecordPartialHash(id, body, content, t) ==
  [id |-> id,
   lat |-> JsonNum(ParseFloat(OrZero(body.lat))),
   lon |-> JsonNum(ParseFloat(OrZero(body.lon))),
   accuracy |-> JsonNum(ParseFloat(OrZero(body.accuracy))),
   category |-> CategoryOf(body.category),
   captured_at |-> JsonNum(CapturedAtMs(body.captured_at, t)),
   created_at |-> Num(t),
   size |-> Len(content),
   file_path |-> BlobPath(id),
   hash |-> Sha256(SubSeq(content, 1, Len(content) - 1))]
DedupRecordStampsCapture(id, body, content, t) ==
  [id |-> id,
   lat |-> JsonNum(ParseFloat(OrZero(body.lat))),
   lon |-> JsonNum(ParseFloat(OrZero(body.lon))),
   accuracy |-> JsonNum(ParseFloat(OrZero(body.accuracy))),
   category |-> CategoryOf(body.category),
   captured_at |-> JsonNum(CapturedAtMs(body.captured_at, t)),
   created_at |-> JsonNum(CapturedAtMs(body.captured_at, t)),
   size |-> Len(content),
   file_path |-> BlobPath(id),
   hash |-> Sha256(content)]
DedupRecord(id, body, content, t) ==
  [id |-> id,
   lat |-> JsonNum(ParseFloat(OrZero(body.lat))),
   lon |-> JsonNum(ParseFloat(OrZero(body.lon))),
   accuracy |-> JsonNum(ParseFloat(OrZero(body.accuracy))),
   category |-> CategoryOf(body.category),
   captured_at |-> JsonNum(CapturedAtMs(body.captured_at, t)),
   created_at |-> Num(t),
   size |-> Len(content),
   file_path |-> BlobPath(id),
   hash |-> Sha256(content)]

\* the record the media and basic revisions push
MediaRecord(id, body, content, t) ==
  [id |-> id,
   lat |-> JsonNum(ParseFloat(OrZero(body.lat))),
   lon |-> JsonNum(ParseFloat(OrZero(body.lon))),
   accuracy |-> JsonNum(ParseFloat(OrZero(body.accuracy))),
   captured_at |-> JsonNum(CapturedAtMs(body.captured_at, t)),
   created_at |-> Num(t),
   size |-> Len(content),
   file_path |-> BlobPath(id)]

\* The dedup hit: unlink the staged file, answer with the existing id.
\* The result is <<index, directory, response, failed step>>.
DedupHitKeepsTemp(arr, fs, tmp, dup) ==
  [db |-> arr, files |-> fs, resp |-> Resp(200, dup.id, "true"), err |-> "none"]
DedupHit(arr, fs, tmp, dup) ==
  [db |-> arr, files |-> Unlink(fs, tmp), resp |-> Resp(200, dup.id, "true"),
   err |-> "none"]

\* The miss path of every renaming revision: renameSync, push, writeDB,
\* respond.  renameOk and writeOk are what the file system does; a throw is
\* caught and answered 500.
InsertBeforePlace(arr, fs, tmp, rec, dupField, renameOk, writeOk) ==
  IF ~writeOk
  THEN [db |-> arr, files |-> fs, resp |-> Resp(500, 0, "absent"), err |-> "writeDB"]
  ELSE IF ~renameOk
  THEN [db |-> Append(arr, rec), files |-> fs, resp |-> Resp(500, 0, "absent"),
        err |-> "rename"]
  ELSE [db |-> Append(arr, rec), files |-> Rename(fs, tmp, rec.file_path),
        resp |-> Resp(200, rec.id, dupField), err |-> "none"]
InsertLosesOld(arr, fs, tmp, rec, dupField, renameOk, writeOk) ==
  IF ~renameOk
  THEN [db |-> arr, files |-> fs, resp |-> Resp(500, 0, "absent"), err |-> "rename"]
  ELSE IF ~writeOk
  THEN [db |-> arr, files |-> Rename(fs, tmp, rec.file_path),
        resp |-> Resp(500, 0, "absent"), err |-> "writeDB"]
  ELSE [db |-> <<rec>>, files |-> Rename(fs, tmp, rec.file_path),
        resp |-> Resp(200, rec.id, dupField), err |-> "none"]
PlaceAndInsert(arr, fs, tmp, rec, dupField, renameOk, writeOk) ==
  IF ~renameOk
  THEN [db |-> arr, files |-> fs, resp |-> Resp(500, 0, "absent"), err |-> "rename"]
  ELSE IF ~writeOk
  THEN [db |-> arr, files |-> Rename(fs, tmp, rec.file_path),
        resp |-> Resp(500, 0, "absent"), err |-> "writeDB"]
  ELSE [db |-> Append(arr, rec), files |-> Rename(fs, tmp, rec.file_path),
        resp |-> Resp(200, rec.id, dupField), err |-> "none"]

\* What the dedup handler does once the hash is known, in one turn of the
\* event loop: readDB, find, then the hit or the miss path.
DedupAfterHash(arr, fs, u, r, t, renameOk, writeOk) ==
  LET hash == Sha256(fs[TempPath(u)])
      k == FindByHash(arr, hash)
  IN IF k # 0 THEN DedupHit(arr, fs, TempPath(u), arr[k])
     ELSE PlaceAndInsert(arr, fs, TempPath(u),
                         DedupRecord(NanoId(u), r.body, fs[TempPath(u)], t),
                         "false", renameOk, writeOk)

\* POST /upload, dedup revision, up to the await: multer has staged the file
\* part, if any; without one the handler answers 400 at once.
UploadReceive(hasFile, content, body) ==
  /\ variant = "dedup"
  /\ LET u == Len(uploads) + 1
         r == UploadReq(hasFile, content, body)
     IN IF ~hasFile
        THEN /\ uploads' = Append(uploads, Answered(r, Resp(400, 0, "absent"), "nofile"))
             /\ files' = files
        ELSE /\ uploads' = Append(uploads, [r EXCEPT !.pc = "hashing"])
             /\ files' = [q \in (DOMAIN files) \cup {TempPath(u)} |->
                            IF q = TempPath(u) THEN content ELSE files[q]]
  /\ UNCHANGED <<variant, now, db, get, query>>

\* sha256File resolves (the stream ended) and the handler runs to its response
UploadHashed(u, renameOk, writeOk) ==
  /\ variant = "dedup"
  /\ u \in 1..Len(uploads)
  /\ uploads[u].pc = "hashing"
  /\ LET out == DedupAfterHash(db, files, u, uploads[u], now, renameOk, writeOk)
     IN /\ db' = out.db
        /\ files' = out.files
        /\ uploads' = [uploads EXCEPT ![u] = Answered(@, out.resp, out.err)]
  /\ UNCHANGED <<variant, now, get, query>>

\* sha256File rejects (the read stream erred): the catch answers 500
UploadHashErrorStalls(u) ==
  /\ variant = "dedup"
  /\ u \in 1..Len(uploads)
  /\ uploads[u].pc = "hashing"
  /\ uploads' = [uploads EXCEPT ![u].pc = "stalled"]
  /\ UNCHANGED <<variant, now, db, files, get, query>>
UploadHashError(u) ==
  /\ variant = "dedup"
  /\ u \in 1..Len(uploads)
  /\ uploads[u].pc = "hashing"
  /\ uploads' = [uploads EXCEPT ![u] = Answered(@, Resp(500, 0, "absent"), "hash")]
  /\ UNCHANGED <<variant, now, db, files, get, query>>

\* POST /upload, media revision: one synchronous handler
UploadMedia(hasFile, content, body, renameOk, writeOk) ==
  /\ variant = "media"
  /\ LET u == Len(uploads) + 1
         r == UploadReq(hasFile, content, body)
         staged == [q \in (DOMAIN files) \cup {TempPath(u)} |->
                      IF q = TempPath(u) THEN content ELSE files[q]]
         out == PlaceAndInsert(db, staged, TempPath(u),
                               MediaRecord(NanoId(u), body, content, now),
                               "absent", renameOk, writeOk)
     IN IF ~hasFile
        THEN /\ uploads' = Append(uploads, Answered(r, Resp(400, 0, "absent"), "nofile"))
             /\ UNCHANGED <<db, files>>
        ELSE /\ uploads' = Append(uploads, Answered(r, out.resp, out.err))
             /\ db' = out.db
             /\ files' = out.files
  /\ UNCHANGED <<variant, now, get, query>>

\* the record the basic revision pushes
BasicRecord(id, body, t) ==
  [id |-> id,
   lat |-> JsonNum(ParseFloat(OrZero(body.lat))),
   lon |-> JsonNum(ParseFloat(OrZero(body.lon))),
   accuracy |-> JsonNum(ParseFloat(OrZero(body.accuracy))),
   captured_at |-> JsonNum(CapturedAtMs(body.captured_at, t)),
   created_at |-> Num(t),
   file_path |-> BlobPath(id)]

\* POST /upload, basic revision: one synchronous handler
UploadBasic(hasFile, content, body, renameOk, writeOk) ==
  /\ variant = "basic"
  /\ LET u == Len(uploads) + 1
         r == UploadReq(hasFile, content, body)
         staged == [q \in (DOMAIN files) \cup {TempPath(u)} |->
                      IF q = TempPath(u) THEN content ELSE files[q]]
         out == PlaceAndInsert(db, staged, TempPath(u), BasicRecord(NanoId(u), body, now),
                               "absent", renameOk, writeOk)
     IN IF ~hasFile
        THEN /\ uploads' = Append(uploads, Answered(r, Resp(400, 0, "absent"), "nofile"))
             /\ UNCHANGED <<db, files>>
        ELSE /\ uploads' = Append(uploads, Answered(r, out.resp, out.err))
             /\ db' = out.db
             /\ files' = out.files
  /\ UNCHANGED <<variant, now, get, query>>

\* POST /upload, strict and strictquery revisions.  multer's filename callback
\* draws the id and stores the file part under it before the handler runs.
\* accuracy ? parseInt(accuracy, 10) : null
AccuracyOf(s) == IF Truthy(s) THEN JsonNum(ParseInt(s)) ELSE Null

\* captured_at && !Number.isNaN(Date.parse(captured_at))
\*   ? new Date(captured_at) : new Date(), then toISOString()
WhenISO(s, t) ==
  IF Truthy(s) /\ ~NumberIsNaN(DateParse(s)) THEN ToISOString(DateParse(s)[2])
  ELSE ToISOString(t)

StrictRecord(id, body, t) ==
  [id |-> id,
   filepath |-> BlobPath(id),
   lat |-> ParseFloat(body.lat),
   lon |-> ParseFloat(body.lon),
   captured_at |-> WhenISO(body.captured_at, t),
   accuracy |-> AccuracyOf(body.accuracy),
   created_at |-> ToISOString(t)]

UploadStrict(hasFile, content, body, writeOk) ==
  /\ variant \in {"strict", "strictquery"}
  /\ LET u == Len(uploads) + 1
         r == UploadReq(hasFile, content, body)
         stored == [q \in (DOMAIN files) \cup {BlobPath(NanoId(u))} |->
                      IF q = BlobPath(NanoId(u)) THEN content ELSE files[q]]
     IN IF ~hasFile
        THEN /\ uploads' = Append(uploads, Answered(r, Resp(400, 0, "absent"), "nofile"))
             /\ UNCHANGED <<db, files>>
        ELSE IF ~NumberIsFinite(ParseFloat(body.lat)) \/ ~NumberIsFinite(ParseFloat(body.lon))
        THEN /\ uploads' = Append(uploads, Answered(r, Resp(400, 0, "absent"), "latlon"))
             /\ files' = stored
             /\ db' = db
        ELSE IF ~writeOk
        THEN /\ uploads' = Append(uploads, Answered(r, Resp(500, 0, "absent"), "writeDB"))
             /\ files' = stored
             /\ db' = db
        ELSE /\ uploads' = Append(uploads, Answered(r, Resp(200, NanoId(u), "absent"), "none"))
             /\ files' = stored
             /\ db' = Append(db, StrictRecord(NanoId(u), body, now))
  /\ UNCHANGED <<variant, now, get, query>>

\* ------------------------------------------------------------ media fetch
\* row.filepath (strict revisions) or item.file_path (the others)
PathOf(rec) == IF variant \in {"strict", "strictquery"} THEN rec.filepath ELSE rec.file_path

\* arr.find(r => r.id === id): the index of the first such record, 0 if none
FindById(arr, id) ==
  IF \E i \in 1..Len(arr) : arr[i].id = id
  THEN CHOOSE i \in 1..Len(arr) : arr[i].id = id /\ \A j \in 1..(i - 1) : arr[j].id # id
  ELSE 0

\* A fetch in progress (a behaviour follows one fetch: fetches change nothing
\* on the server).  status 0: nothing sent yet.  contentRange is
\* <<start, end, size>> of the Content-Range header, <<>> without one.
\* body holds the bytes piped to the client.  err is "norecord" (no such id),
\* "missing" (existsSync false), "ENOENT" (a later stat found the file gone),
\* "stream" (the read stream could not open it), "range" (createReadStream
\* refused the range), else "none".
GetReq(kind, id, range) ==
  [pc |-> "start", kind |-> kind, id |-> id, range |-> range, path |-> <<"blob", 0>>,
   status |-> 0, contentRange |-> <<>>, contentLength |-> 0, body |-> <<>>,
   err |-> "none"]

\* const [s,e] = range.replace(/bytes=/, '').split('-');
\* start = parseInt(s,10); end = e ? parseInt(e,10) : stat.size-1
RangeStart(range) == ParseInt(Split(ReplaceBytes(range), "-")[1])
RangeEnd(range, size) ==
  LET parts == Split(ReplaceBytes(range), "-")
  IN IF Len(parts) >= 2 /\ parts[2] # <<>> THEN ParseInt(parts[2]) ELSE Num(size - 1)

\* const chunk = (end-start)+1
ChunkOffByOne(start, end) == end - start
Chunk(start, end) == (end - start) + 1

\* fs.createReadStream(fp, {start, end}) validates its options when called:
\* both must be integers >= 0 and start <= end, else it throws
ReadStreamAccepts(start, end) ==
  /\ IsNum(start) /\ start[2] >= 0
  /\ IsNum(end) /\ end[2] >= 0
  /\ start[2] <= end[2]

\* the bytes a read stream over content delivers for {start, end}: it stops
\* at the end of the file
StreamBytes(content, start, end) ==
  SubSeq(content, start + 1, IF end + 1 < Len(content) THEN end + 1 ELSE Len(content))

\* GET /video/:id, strict revisions, up to fs.existsSync
VideoStart(id, range) ==
  /\ variant \in {"strict", "strictquery"}
  /\ get.pc = "idle"
  /\ LET g == GetReq("video", id, range)
         k == FindById(db, id)
     IN IF k = 0 THEN get' = [g EXCEPT !.pc = "done", !.status = 404, !.err = "norecord"]
        ELSE IF db[k].filepath \notin DOMAIN files
        THEN get' = [g EXCEPT !.pc = "done", !.status = 404, !.path = db[k].filepath,
                              !.err = "missing"]
        ELSE get' = [g EXCEPT !.pc = "stat", !.path = db[k].filepath]
  /\ UNCHANGED <<variant, now, db, files, uploads, query>>

\* fs.statSync, the Range branch, writeHead.  A throw (statSync on a file
\* that is gone, createReadStream on a bad range) reaches the framework's
\* error handler, which answers 500.
VideoStat ==
  /\ get.pc = "stat"
  /\ IF get.path \notin DOMAIN files
     THEN get' = [get EXCEPT !.pc = "done", !.status = 500, !.err = "ENOENT"]
     ELSE LET size == Len(files[get.path])
              start == RangeStart(get.range)
              end == RangeEnd(get.range, size)
          IN IF Truthy(get.range)
             THEN IF ReadStreamAccepts(start, end)
                  THEN get' = [get EXCEPT !.pc = "stream", !.status = 206,
                                          !.contentRange = <<start[2], end[2], size>>,
                                          !.contentLength = Chunk(start[2], end[2])]
                  ELSE get' = [get EXCEPT !.pc = "done", !.status = 500, !.err = "range"]
             ELSE get' = [get EXCEPT !.pc = "stream", !.status = 200,
                                     !.contentLength = size]
  /\ UNCHANGED <<variant, now, db, files, uploads, query>>

\* The read stream opens the file and pipes it.  If the file is gone the
\* stream emits an error nobody listens to: no byte is sent.
VideoStream ==
  /\ get.pc = "stream"
  /\ IF get.path \notin DOMAIN files
     THEN get' = [get EXCEPT !.pc = "done", !.err = "stream"]
     ELSE get' = [get EXCEPT !.pc = "done",
                    !.body = IF get.status = 206
                             THEN StreamBytes(files[get.path], get.contentRange[1],
                                              get.contentRange[2])
                             ELSE files[get.path]]
  /\ UNCHANGED <<variant, now, db, files, uploads, query>>

\* GET /media/:id (dedup, media) and GET /video/:id (basic), up to existsSync
MediaStart(id) ==
  /\ variant \in {"dedup", "media", "basic"}
  /\ get.pc = "idle"
  /\ LET g == GetReq("media", id, Missing)
         k == FindById(db, id)
     IN IF k = 0 THEN get' = [g EXCEPT !.pc = "done", !.status = 404, !.err = "norecord"]
        ELSE IF db[k].file_path \notin DOMAIN files
        THEN get' = [g EXCEPT !.pc = "done", !.status = 404, !.path = db[k].file_path,
                              !.err = "missing"]
        ELSE get' = [g EXCEPT !.pc = "send", !.path = db[k].file_path]
  /\ UNCHANGED <<variant, now, db, files, uploads, query>>

\* res.sendFile stats and streams the file later; a file that is gone by
\* then is passed to next(err) with status 404
MediaSend ==
  /\ get.pc = "send"
  /\ IF get.path \notin DOMAIN files
     THEN get' = [get EXCEPT !.pc = "done", !.status = 404, !.err = "ENOENT"]
     ELSE get' = [get EXCEPT !.pc = "done", !.status = 200,
                             !.contentLength = Len(files[get.path]),
                             !.body = files[get.path]]
  /\ UNCHANGED <<variant, now, db, files, uploads, query>>

\* Another process removes the blob of an indexed record
RemoveBlob(i) ==
  /\ i \in 1..Len(db)
  /\ PathOf(db[i]) \in DOMAIN files
  /\ files' = Unlink(files, PathOf(db[i]))
  /\ UNCHANGED <<variant, now, db, uploads, get, query>>

\* ------------------------------------------------------------ /map-points
\* a || b on numbers: 0, NaN, null and undefined are falsy
Falsy(v) == v \in {Num(0), NaN, Null, Undefined}
JsOr(a, b) == IF Falsy(a) THEN b ELSE a

\* arr.filter(keep), keep given as the set of indices kept
RECURSIVE FilterIdx(_, _, _)
FilterIdx(arr, keep, i) ==
  IF i > Len(arr) THEN <<>>
  ELSE (IF i \in keep THEN <<arr[i]>> ELSE <<>>) \o FilterIdx(arr, keep, i + 1)

\* req.query.bbox.split(',').map(Number)
BBoxNumbers(bbox) ==
  LET parts == Split(bbox, ",") IN [i \in 1..Len(parts) |-> ToNumberStr(parts[i])]

\* p.lon >= w && p.lon <= e && p.lat >= s && p.lat <= n
InBox(p, w, s, e, n) ==
  /\ JsGE(p.lon, w) /\ JsLE(p.lon, e)
  /\ JsGE(p.lat, s) /\ JsLE(p.lat, n)

\* the exchange a /map-points handler leaves: the request, the time it was
\* handled, the status, and the "points" array when the body carries one
QueryResp(bbox, hours, at, status, hasPoints, points) ==
  [asked |-> TRUE, bbox |-> bbox, hours |-> hours, at |-> at, status |-> status,
   hasPoints |-> hasPoints, points |-> points]

\* hours ? parseInt(hours, 10) : null, then `hours && Number.isFinite(hours)`
HoursFilterOn(hours) ==
  Truthy(hours) /\ ~Falsy(ParseInt(hours)) /\ NumberIsFinite(ParseInt(hours))

\* result.filter(p => (p.created_at || p.captured_at || 0) >= cutoff) with
\* cutoff = Date.now() - hours * 3600 * 1000
RecentIdx(arr, hours, t) ==
  {i \in 1..Len(arr) :
     JsGE(JsOr(JsOr(arr[i].created_at, arr[i].captured_at), Num(0)),
          Num(t - ParseInt(hours)[2] * MsPerHour))}

\* GET /map-points, strict revision: `points` is declared nowhere, so the
\* first statement of the handler throws and the catch answers 500
MapPointsStrict(bbox, hours) ==
  /\ variant = "strict"
  /\ query' = QueryResp(bbox, hours, now, 500, FALSE, <<>>)
  /\ UNCHANGED <<variant, now, db, files, uploads, get>>

\* GET /map-points, dedup revision: the hours filter only
MapPointsDedup(bbox, hours) ==
  /\ variant = "dedup"
  /\ LET kept == IF HoursFilterOn(hours) THEN RecentIdx(db, hours, now) ELSE 1..Len(db)
     IN query' = QueryResp(bbox, hours, now, 200, TRUE, FilterIdx(db, kept, 1))
  /\ UNCHANGED <<variant, now, db, files, uploads, get>>

\* bbox && bbox.length === 4 && bbox.every(Number.isFinite)
BBoxFilterOn(bbox) ==
  /\ Truthy(bbox)
  /\ Len(BBoxNumbers(bbox)) = 4
  /\ \A i \in 1..4 : NumberIsFinite(BBoxNumbers(bbox)[i])

\* GET /map-points, basic and media revisions: the hours filter, then the
\* bbox filter when bbox parses to four finite numbers
MapPointsMedia(bbox, hours) ==
  /\ variant \in {"basic", "media"}
  /\ LET recent == IF HoursFilterOn(hours) THEN RecentIdx(db, hours, now) ELSE 1..Len(db)
         b == BBoxNumbers(bbox)
         kept == IF BBoxFilterOn(bbox)
                 THEN {i \in recent : InBox(db[i], b[1], b[2], b[3], b[4])}
                 ELSE recent
     IN query' = QueryResp(bbox, hours, now, 200, TRUE, FilterIdx(db, kept, 1))
  /\ UNCHANGED <<variant, now, db, files, uploads, get>>

\* .sort((a,b) => Date.parse(b.captured_at) - Date.parse(a.captured_at)):
\* stable, latest captured_at first (every stored captured_at parses)
RECURSIVE InsertDesc(_, _)
InsertDesc(sorted, r) ==
  IF sorted = <<>> THEN <<r>>
  ELSE IF DateParse(Head(sorted).captured_at)[2] >= DateParse(r.captured_at)[2]
       THEN <<Head(sorted)>> \o InsertDesc(Tail(sorted), r)
       ELSE <<r>> \o sorted
RECURSIVE SortDesc(_)
SortDesc(arr) ==
  IF arr = <<>> THEN <<>>
  ELSE InsertDesc(SortDesc(SubSeq(arr, 1, Len(arr) - 1)), arr[Len(arr)])

\* .slice(0, 5000)
ResultCap == 5000
Slice(arr, n) == SubSeq(arr, 1, IF Len(arr) < n THEN Len(arr) ELSE n)

\* rows.map(({id,lat,lon,captured_at}) => ({ id, lat, lon, captured_at }))
Project(arr) ==
  [i \in 1..Len(arr) |->
     [id |-> arr[i].id, lat |-> arr[i].lat, lon |-> arr[i].lon,
      captured_at |-> arr[i].captured_at]]

\* parseInt((req.query.hours || '24').toString(), 10)
DefaultHours == 24
StrictHours(hours) == IF Truthy(hours) THEN ParseInt(hours) ELSE Num(DefaultHours)

\* GET /map-points, strictquery revision
MapPointsStrictQuery(bbox, hours) ==
  /\ variant = "strictquery"
  /\ LET b == BBoxNumbers(IF Truthy(bbox) THEN bbox ELSE <<>>)
         h == StrictHours(hours)
         since == IF IsNum(h) THEN Num(now - h[2] * MsPerHour) ELSE NaN
         kept == {i \in 1..Len(db) :
                    /\ JsGE(DateParse(db[i].captured_at), since)
                    /\ InBox(db[i], b[1], b[2], b[3], b[4])}
     IN IF Len(b) # 4 \/ \E i \in 1..Len(b) : ~NumberIsFinite(b[i])
        THEN query' = QueryResp(bbox, hours, now, 400, FALSE, <<>>)
        ELSE query' = QueryResp(bbox, hours, now, 200, TRUE,
                                Project(Slice(SortDesc(FilterIdx(db, kept, 1)), ResultCap)))
  /\ UNCHANGED <<variant, now, db, files, uploads, get>>

\* time passes
Tick ==
  /\ now < EndHour * MsPerHour
  /\ now' = now + MsPerHour
  /\ UNCHANGED <<variant, db, files, uploads, get, query>>

\* The promise of sha256File settles: the stream of upload u ends (and the
\* handler runs on, with whatever the file system then does) or errs.
HashSettles(u) ==
  \/ \E renameOk \in BOOLEAN, writeOk \in BOOLEAN : UploadHashed(u, renameOk, writeOk)
  \/ UploadHashError(u)

\* ------------------------------------------------ the ingestion pipeline
\* The dedup and media revisions under concurrent uploads of two contents,
\* with every file-system outcome.
IngestContents == {Blob(1), Blob(2)}
IngestBodies == {Body(<<"1">>, <<"2">>, Missing, Missing, "(missing)")}

InitIngest == InitWith({"dedup", "media"})

NextIngest ==
  \/ /\ Len(uploads) < MaxUploads
     /\ \E c \in IngestContents, b \in IngestBodies : UploadReceive(TRUE, c, b)
  \/ /\ Len(uploads) < MaxUploads
     /\ UploadReceive(FALSE, <<>>, Body(Missing, Missing, Missing, Missing, "(missing)"))
  \/ \E u \in 1..Len(uploads), renameOk \in BOOLEAN, writeOk \in BOOLEAN :
       UploadHashed(u, renameOk, writeOk)
  \/ \E u \in 1..Len(uploads) : UploadHashError(u)
  \/ /\ Len(uploads) < MaxUploads
     /\ \E c \in IngestContents, b \in IngestBodies, renameOk \in BOOLEAN, writeOk \in BOOLEAN :
          UploadMedia(TRUE, c, b, renameOk, writeOk)
  \/ /\ Len(uploads) < MaxUploads
     /\ UploadMedia(FALSE, <<>>, Body(Missing, Missing, Missing, Missing, "(missing)"),
                    TRUE, TRUE)

SpecIngest == InitIngest /\ [][NextIngest]_vars

\* ------------------------------------------------------- uploads answered
\* The dedup revision, where every read stream opened by sha256File ends or
\* errs: each upload being hashed is eventually taken up again.
MaxLiveUploads == 3

InitLive == InitWith({"dedup"})

NextLive ==
  \/ /\ Len(uploads) < MaxLiveUploads
     /\ \E c \in IngestContents, b \in IngestBodies : UploadReceive(TRUE, c, b)
  \/ /\ Len(uploads) < MaxLiveUploads
     /\ UploadReceive(FALSE, <<>>, Body(Missing, Missing, Missing, Missing, "(missing)"))
  \/ \E u \in 1..Len(uploads), renameOk \in BOOLEAN, writeOk \in BOOLEAN :
       UploadHashed(u, renameOk, writeOk)
  \/ \E u \in 1..Len(uploads) : UploadHashError(u)

SpecLive ==
  /\ InitLive
  /\ [][NextLive]_vars
  /\ \A u \in 1..MaxLiveUploads : WF_vars(HashSettles(u))

\* -------------------------------------------------------- ingestion clock
\* The dedup and strict revisions stamping records while time passes between
\* the arrival of an upload and its insertion.
MaxClockUploads == 3

ClockBodies ==
  {Body(<<"1">>, <<"2">>, Missing, c, "(missing)") :
     c \in {Missing, ToISOString((StartHour - 1) * MsPerHour)}}

InitClock == InitWith({"dedup", "strict"})

NextClock ==
  \/ /\ Len(uploads) < MaxClockUploads
     /\ \E b \in ClockBodies :
          \/ UploadReceive(TRUE, Blob(Len(uploads) + 1), b)
          \/ UploadStrict(TRUE, Blob(1), b, TRUE)
  \/ \E u \in 1..Len(uploads) : UploadHashed(u, TRUE, TRUE)
  \/ Tick

SpecClock == InitClock /\ [][NextClock]_vars

\* -------------------------------------------------------------- form fields
\* The dedup revision storing what the form fields carry.
MaxFieldUploads == 2

FieldBodies ==
  {Body(lat, <<"2">>, Missing, Missing, c) :
     lat \in {<<"1">>, <<"x">>, Missing},
     c \in {"(missing)", "", "fire", "bogus"}}

\* numeric fields that are missing, empty or no number
NumericBodies ==
  {Body(Missing, Missing, Missing, Missing, "(missing)"),
   Body(<<"1">>, <<"x">>, <<"3">>, Missing, "(missing)"),
   Body(<<"1">>, <<"2">>, <<"x">>, Missing, "(missing)"),
   Body(<<>>, <<"2">>, <<"3">>, Missing, "(missing)")}

\* capture times: a date, text that is no date, the empty string
TimeBodies ==
  {Body(<<"1">>, <<"2">>, Missing, c, "(missing)") :
     c \in {ToISOString((StartHour - 1) * MsPerHour), <<"x">>, <<>>}}

InitFields == InitWith({"dedup"})

NextFields ==
  \/ /\ Len(uploads) < MaxFieldUploads
     /\ \E b \in FieldBodies \cup NumericBodies \cup TimeBodies :
          UploadReceive(TRUE, Blob(Len(uploads) + 1), b)
  \/ \E u \in 1..Len(uploads) : UploadHashed(u, TRUE, TRUE)

SpecFields == InitFields /\ [][NextFields]_vars

\* ---------------------------------------------------------- media fetching
\* The strict revision serving /video/:id with Range headers, and the media
\* revision serving /media/:id, while blobs are removed out of band.
MaxFetchUploads == 1

\* "bytes=a-b", "bytes=a-", the suffix form "bytes=-b" and text that is no range
RangeOf(a, b) == <<"bytes=">> \o Dec(a) \o <<"-">> \o Dec(b)
RangeFrom(a) == <<"bytes=">> \o Dec(a) \o <<"-">>
RangeSuffix(b) == <<"bytes=", "-">> \o Dec(b)
RangeHeaders ==
  {Missing, <<>>, <<"bytes=", "x", "-", "1">>, <<"bytes=", "x">>, <<"bytes=", "1", "-", "x">>,
   <<"bytes=", "0", "-", "1", "0">>}
    \cup {RangeOf(a, b) : a, b \in 0..MaxRangeNum}
    \cup {RangeFrom(a) : a \in 0..MaxRangeNum}
    \cup {RangeSuffix(b) : b \in 0..MaxRangeNum}

FetchBody == Body(<<"1">>, <<"2">>, Missing, Missing, "(missing)")
BadLatBody == Body(<<"x">>, <<"2">>, Missing, Missing, "(missing)")

InitFetch == InitWith({"strict", "media"})

NextFetch ==
  \/ /\ Len(uploads) < MaxFetchUploads
     /\ \E n \in 0..MaxBlobSize, writeOk \in BOOLEAN :
          UploadStrict(TRUE, Blob(n), FetchBody, writeOk)
  \/ /\ Len(uploads) < MaxFetchUploads
     /\ \/ UploadStrict(FALSE, <<>>, FetchBody, TRUE)
        \/ UploadStrict(TRUE, Blob(1), BadLatBody, TRUE)
  \/ /\ Len(uploads) < MaxFetchUploads
     /\ \E n \in 0..MaxBlobSize, renameOk \in BOOLEAN, writeOk \in BOOLEAN :
          UploadMedia(n > 0, Blob(n), FetchBody, renameOk, writeOk)
  \/ \E id \in 1..(Len(uploads) + 1), h \in RangeHeaders : VideoStart(id, h)
  \/ VideoStat
  \/ VideoStream
  \/ \E id \in 1..(Len(uploads) + 1) : MediaStart(id)
  \/ MediaSend
  \/ \E i \in 1..Len(db) : RemoveBlob(i)

SpecFetch == InitFetch /\ [][NextFetch]_vars

\* --------------------------------------------------------------- map query
\* Every revision answering /map-points over records at two places,
\* (lon 1, lat 2) and (lon 5, lat 6), uploaded at different hours.
MaxQueryUploads == 2

BBoxOf(w, s, e, n) == Dec(w) \o <<",">> \o Dec(s) \o <<",">> \o Dec(e) \o <<",">> \o Dec(n)
\* boxes around the first place, the second place, and both
WellFormedBoxes == {<<0, 0, 3, 3>>, <<4, 4, 9, 9>>, <<0, 0, 9, 9>>}
\* three numbers, a component that is no number, five numbers
MalformedBBoxes ==
  {<<"1", ",", "2", ",", "3">>, <<"0", ",", "0", ",", "x", ",", "3">>,
   <<"0", ",", "0", ",", "3", ",", "3", ",", "3">>}
BBoxInputs ==
  {Missing} \cup MalformedBBoxes \cup {BBoxOf(b[1], b[2], b[3], b[4]) : b \in WellFormedBoxes}
HoursInputs == {Missing, <<"1">>}

QueryBodies ==
  {Body(Dec(p[2]), Dec(p[1]), Missing, c, "(missing)") :
     p \in {<<1, 2>>, <<5, 6>>},
     c \in {Missing, ToISOString((StartHour - 1) * MsPerHour)}}

InitQuery == InitWith(Variants)

NextQuery ==
  \/ /\ Len(uploads) < MaxQueryUploads
     /\ \E b \in QueryBodies :
          \/ UploadStrict(TRUE, Blob(1), b, TRUE)
          \/ UploadReceive(TRUE, Blob(Len(uploads) + 1), b)
          \/ UploadBasic(TRUE, Blob(1), b, TRUE, TRUE)
          \/ UploadMedia(TRUE, Blob(1), b, TRUE, TRUE)
  \/ \E u \in 1..Len(uploads) : UploadHashed(u, TRUE, TRUE)
  \/ \E bbox \in BBoxInputs, hours \in HoursInputs :
       \/ MapPointsStrict(bbox, hours)
       \/ MapPointsStrictQuery(bbox, hours)
       \/ MapPointsDedup(bbox, hours)
       \/ MapPointsMedia(bbox, hours)
  \/ Tick

SpecQuery == InitQuery /\ [][NextQuery]_vars

\* ------------------------------------------------------- claims, ingestion
\* request u is answered in this step, and not by a failed hash
Finishes(u) ==
  /\ u \in 1..Len(uploads)
  /\ uploads[u].pc = "hashing"
  /\ uploads'[u].pc = "done"
  /\ uploads'[u].err # "hash"

\* the permanent blobs of a directory
Blobs(fs) == {q \in DOMAIN fs : q[1] = "blob"}

\* the hashes the index holds
IndexedHashes(arr) == {arr[i].hash : i \in 1..Len(arr)}

\* C1: in the dedup handler an upload whose content hash is already indexed
\* is answered {ok:true, id: the existing record's id, duplicate:true}, its
\* staged file is removed, and the index and the permanent blobs stay as
\* they were.
C1_DedupIdempotent ==
  [][\A u \in 1..Len(uploads) :
       (Finishes(u) /\ Sha256(uploads[u].content) \in IndexedHashes(db)) =>
         /\ \E i \in 1..Len(db) :
              /\ db[i].hash = Sha256(uploads[u].content)
              /\ uploads'[u].resp = Resp(200, db[i].id, "true")
         /\ TempPath(u) \notin DOMAIN files'
         /\ db' = db
         /\ Blobs(files') = Blobs(files)
         /\ \A q \in Blobs(files) : files'[q] = files[q]]_vars

\* C1 witness: a duplicate was answered while the first upload's record and
\* blob are in place
C1_Witness ==
  \E u \in 1..Len(uploads) :
    /\ uploads[u].resp.duplicate = "true"
    /\ uploads[u].resp.id # u
    /\ TempPath(u) \notin DOMAIN files
    /\ Len(db) = 1

\* C2: under every interleaving of uploads no two records of the index carry
\* the same content hash, and a lookup that runs after an insert has
\* completed finds the inserted hash (the upload is answered as a duplicate
\* and inserts nothing).
C2_HashUnique ==
  [][/\ variant = "dedup" =>
          \A i, j \in 1..Len(db') : i # j => db'[i].hash # db'[j].hash
     /\ \A u \in 1..Len(uploads) :
          (Finishes(u) /\ Sha256(uploads[u].content) \in IndexedHashes(db)) =>
            /\ uploads'[u].resp.duplicate = "true"
            /\ Len(db') = Len(db)]_vars

\* C2 witness: two uploads of the same bytes were in flight together (the one
\* that arrived first is still hashing) and the later one is already indexed
C2_Witness ==
  \E u, v \in 1..Len(uploads) :
    /\ u < v
    /\ uploads[u].content = uploads[v].content
    /\ uploads[u].pc = "hashing"
    /\ uploads[v].resp = Resp(200, v, "false")
    /\ \E i \in 1..Len(db) : db[i].id = v

\* C3: a record enters the index only with its blob in place at file_path,
\* and an upload whose rename failed is answered 500 and leaves the index
\* unchanged.
C3_PlaceBeforeInsert ==
  [][/\ \A i \in 1..Len(db') :
          (i > Len(db) \/ db'[i] # db[i]) => db'[i].file_path \in DOMAIN files'
     /\ \A u \in 1..Len(uploads') :
          (/\ uploads'[u].err = "rename"
           /\ (u > Len(uploads) \/ uploads[u].pc # "done")) =>
            /\ uploads'[u].resp.status = 500
            /\ db' = db]_vars

\* C3 witness: one upload failed in rename, another was placed and indexed
C3_Witness ==
  /\ \E u \in 1..Len(uploads) : uploads[u].err = "rename"
  /\ \E i \in 1..Len(db) : db[i].file_path \in DOMAIN files

Categories == {"incident", "event", "traffic", "fire", "disaster", "police", "other"}

\* C8: every record of the index has a category of the closed set; an input
\* outside the set or missing is stored as "other", one inside it unchanged.
C8_CategoryClosed ==
  variant = "dedup" =>
    \A i \in 1..Len(db) :
      LET given == uploads[db[i].id].body.category
      IN /\ db[i].category \in Categories
         /\ given \in Categories => db[i].category = given
         /\ given \notin Categories => db[i].category = "other"

\* -------------------------------------------------------- claims, fetching
\* a /video/:id request has been answered and its blob is still on disk, so
\* it was there at every step of the handler
ServedVideo == get.kind = "video" /\ get.pc = "done" /\ get.path \in DOMAIN files

\* C4: for a blob of S bytes, Range "bytes=a-b" with 0 <= a <= b <= S-1 (or
\* "bytes=a-", meaning b = S-1) is answered 206 with Content-Range
\* bytes a-b/S, Content-Length b-a+1 and exactly the bytes a..b; a request
\* without Range is answered 200 with Content-Length S and all S bytes.
C4_RangeCorrect ==
  ServedVideo =>
    LET blob == files[get.path]
        S == Len(blob)
        Partial(a, b) ==
          /\ get.status = 206
          /\ get.contentRange = <<a, b, S>>
          /\ get.contentLength = (b - a) + 1
          /\ get.body = SubSeq(blob, a + 1, b + 1)
    IN /\ \A a, b \in 0..(S - 1) :
            (a <= b /\ get.range = RangeOf(a, b)) => Partial(a, b)
       /\ \A a \in 0..(S - 1) : get.range = RangeFrom(a) => Partial(a, S - 1)
       /\ get.range = Missing =>
            get.status = 200 /\ get.contentLength = S /\ get.body = blob

\* C4 witness: bytes 1..2 of a 3-byte blob were served as a partial response
C4_Witness ==
  /\ ServedVideo
  /\ get.range = RangeOf(1, 2)
  /\ get.status = 206
  /\ get.body = <<2, 3>>
  /\ Len(files[get.path]) = 3

\* C5: every 206 response reports a range with 0 <= start <= end <= S-1 and
\* Content-Length end-start+1 (an end past S-1 is clamped, a start outside
\* the blob is never served).
C5_RangeValidated ==
  (get.kind = "video" /\ get.status = 206) =>
    /\ 0 <= get.contentRange[1]
    /\ get.contentRange[1] <= get.contentRange[2]
    /\ get.contentRange[2] <= get.contentRange[3] - 1
    /\ get.contentLength = (get.contentRange[2] - get.contentRange[1]) + 1

\* Range headers that are no byte range: a start that is no number, the
\* suffix form with an empty start
MalformedRanges ==
  {<<"bytes=", "x", "-", "1">>, <<"bytes=", "x">>} \cup {RangeSuffix(b) : b \in 0..MaxRangeNum}

\* C6: a malformed Range header is treated as no range: 200, the full blob,
\* Content-Length equal to the file size.
C6_MalformedRangeIsFull ==
  (ServedVideo /\ get.range \in MalformedRanges) =>
    /\ get.status = 200
    /\ get.contentLength = Len(files[get.path])
    /\ get.body = files[get.path]

\* C7: a fetch of an unknown id, or of a record whose blob is missing when
\* the handler reads it (also when it is removed while the request is being
\* handled), is answered 404 and never 500.
C7_MissingIs404 ==
  (get.pc = "done" /\ get.err \in {"norecord", "missing", "ENOENT", "stream"}) =>
    get.status = 404

\* ----------------------------------------------------------- claims, query
\* the reference timestamp of a stored record: createdAt, else capturedAt
RefTime(rec) ==
  IF variant \in {"strict", "strictquery"} THEN DateParse(rec.created_at)
  ELSE IF IsNum(rec.created_at) THEN rec.created_at ELSE rec.captured_at

\* the number a stored coordinate holds
Coord(v) == IF IsNum(v) THEN v[2] ELSE 0

\* the ids a /map-points response lists
PointIds(points) == {points[i].id : i \in 1..Len(points)}

\* the request of this step is a /map-points request
Asked == query' # query

\* C9: a /map-points request with a well-formed bbox returns exactly the
\* stored records, within the time window when hours is given, with
\* west <= lon <= east and south <= lat <= north.  Stated of the media and
\* dedup revisions, whose handlers the claim cites.
C9_BBoxExact ==
  [][\A b \in WellFormedBoxes :
       (Asked /\ variant \in {"media", "dedup"}
              /\ query'.bbox = BBoxOf(b[1], b[2], b[3], b[4])
              /\ query'.hours \in {Missing, <<"1">>}) =>
         /\ query'.hasPoints
         /\ Len(query'.points) = Cardinality(PointIds(query'.points))
         /\ PointIds(query'.points) =
              {db[i].id : i \in
                 {j \in 1..Len(db) :
                    /\ b[1] <= Coord(db[j].lon) /\ Coord(db[j].lon) <= b[3]
                    /\ b[2] <= Coord(db[j].lat) /\ Coord(db[j].lat) <= b[4]
                    /\ query'.hours = <<"1">> =>
                         RefTime(db[j])[2] >= now - 1 * MsPerHour}}]_vars

\* C10: a /map-points request whose bbox is present but is not exactly four
\* finite numbers is answered 400 without a point list.  Stated of the
\* media and strictquery revisions; the strict revision answers every
\* request 500.
C10_BadBBoxIs400 ==
  (query.asked /\ variant \in {"media", "strictquery"} /\ query.bbox \in MalformedBBoxes) =>
    query.status = 400 /\ ~query.hasPoints

\* every id of the index
AllIds(arr) == {arr[i].id : i \in 1..Len(arr)}

\* the ids of the records of arr inside the box <<w, s, e, n>>
IdsInBox(arr, b) ==
  {arr[j].id : j \in
     {k \in 1..Len(arr) :
        /\ b[1] <= Coord(arr[k].lon) /\ Coord(arr[k].lon) <= b[3]
        /\ b[2] <= Coord(arr[k].lat) /\ Coord(arr[k].lat) <= b[4]}}

\* C11: both /map-points filters are optional: a request without bbox or
\* without hours is answered 200 with a point list, a request without hours
\* and with a well-formed bbox lists every record inside the box, and a
\* request with neither lists every stored record.  Stated of the
\* strictquery revision, the first handler the claim cites; the strict
\* revision answers every request 500.
C11_FiltersOptional ==
  [][(Asked /\ variant = "strictquery") =>
       /\ (query'.bbox = Missing \/ query'.hours = Missing) =>
            query'.status = 200 /\ query'.hasPoints
       /\ \A b \in WellFormedBoxes :
            (query'.hours = Missing /\ query'.bbox = BBoxOf(b[1], b[2], b[3], b[4])) =>
              PointIds(query'.points) = IdsInBox(db, b)
       /\ (query'.bbox = Missing /\ query'.hours = Missing) =>
            /\ PointIds(query'.points) = AllIds(db)
            /\ Len(query'.points) = Len(db)]_vars

\* C13: no point of a /map-points response carries the server-local path of
\* the blob (file_path or filepath).  Stated of the strictquery, dedup and
\* media revisions, whose handlers the claim cites.
C13_NoBlobPath ==
  (query.hasPoints /\ variant \in {"strictquery", "dedup", "media"}) =>
    \A i \in 1..Len(query.points) :
      /\ "file_path" \notin DOMAIN query.points[i]
      /\ "filepath" \notin DOMAIN query.points[i]

\* C14: the strictquery revision lists its points latest reference timestamp
\* (createdAt) first, and leaves a matching record out only when ResultCap
\* points are listed, all of them at least as recent.  Stated of requests
\* whose box holds both places and whose window is the default, so that
\* every stored record matches.
C14_DescendingByRefTime ==
  [][(Asked /\ variant = "strictquery" /\ query'.hours = Missing
            /\ query'.bbox = BBoxOf(0, 0, 9, 9)) =>
       LET pts == query'.points
           Ref(id) == RefTime(db[FindById(db, id)])[2]
       IN /\ query'.status = 200
          /\ \A i, j \in 1..Len(pts) : i < j => Ref(pts[i].id) >= Ref(pts[j].id)
          /\ Len(pts) <= ResultCap
          /\ \A k \in 1..Len(db) :
               db[k].id \notin PointIds(pts) =>
                 /\ Len(pts) = ResultCap
                 /\ \A i \in 1..Len(pts) : Ref(pts[i].id) >= Ref(db[k].id)]_vars

\* ------------------------------------------------------------- time window
\* The media, dedup and strictquery revisions answering /map-points with an
\* hours parameter, for records at one place uploaded at different hours,
\* with and without a capture time of their own.
MaxWindowUploads == 2
MaxWindowHours == 2

\* the box that holds every place uploaded here
WindowBBox == BBoxOf(0, 0, 9, 9)
WindowHours == {Dec(n) : n \in 1..MaxWindowHours}
WindowBodies ==
  {Body(<<"2">>, <<"1">>, Missing, c, "(missing)") :
     c \in {Missing, ToISOString((StartHour - 1) * MsPerHour)}}

InitWindow == InitWith({"media", "dedup", "strictquery"})

NextWindow ==
  \/ /\ Len(uploads) < MaxWindowUploads
     /\ \E b \in WindowBodies :
          \/ UploadStrict(TRUE, Blob(1), b, TRUE)
          \/ UploadReceive(TRUE, Blob(Len(uploads) + 1), b)
          \/ UploadMedia(TRUE, Blob(1), b, TRUE, TRUE)
  \/ \E u \in 1..Len(uploads) : UploadHashed(u, TRUE, TRUE)
  \/ \E hours \in WindowHours :
       \/ MapPointsStrictQuery(WindowBBox, hours)
       \/ MapPointsDedup(WindowBBox, hours)
       \/ MapPointsMedia(WindowBBox, hours)
  \/ Tick

SpecWindow == InitWindow /\ [][NextWindow]_vars

\* C12: a /map-points request with hours=N (N >= 1) lists exactly the stored
\* records whose reference timestamp (createdAt, else capturedAt) is at
\* least now - N hours.  The box asked for holds every record.
C12_TimeWindow ==
  [][\A n \in 1..MaxWindowHours :
       (Asked /\ query'.hours = Dec(n) /\ query'.bbox = WindowBBox) =>
         /\ query'.hasPoints
         /\ Len(query'.points) = Cardinality(PointIds(query'.points))
         /\ PointIds(query'.points) =
              {db[i].id : i \in {j \in 1..Len(db) :
                                   RefTime(db[j])[2] >= now - n * MsPerHour}}]_vars

\* ------------------------------------------------------ claims, form fields
\* a form field that holds a numeral
IsNumeral(s) == s # Missing /\ s # <<>> /\ DigitPrefix(s) = s

\* the form fields of the upload that created record rec
BodyOf(rec) == uploads[rec.id].body

\* an upload that carried a file and met no file-system failure is answered 200
AcceptedAll ==
  \A u \in 1..Len(uploads) : uploads[u].pc = "done" => uploads[u].resp.status = 200

\* C15: a lat, lon or accuracy field that is missing or is no number is
\* stored as 0, and the upload is accepted.
C15_NumericDefaultsToZero ==
  /\ AcceptedAll
  /\ \A i \in 1..Len(db) :
       /\ ~IsNumeral(BodyOf(db[i]).lat) => db[i].lat = Num(0)
       /\ ~IsNumeral(BodyOf(db[i]).lon) => db[i].lon = Num(0)
       /\ ~IsNumeral(BodyOf(db[i]).accuracy) => db[i].accuracy = Num(0)

\* C16: when captured_at is missing or is no date, the stored captured_at is
\* the time of ingestion, and the upload is accepted.
C16_CapturedAtDefaultsToNow ==
  /\ \A u \in 1..Len(uploads) : uploads[u].pc = "done" => uploads[u].resp.status = 200
  /\ \A i \in 1..Len(db) :
       (BodyOf(db[i]).captured_at = Missing \/ DateParse(BodyOf(db[i]).captured_at) = NaN) =>
         /\ IsNum(db[i].captured_at)
         /\ db[i].captured_at = db[i].created_at

\* ------------------------------------------------ claims, order of the steps
\* request u receives its response in this step
AnsweredNow(u) ==
  /\ u \in 1..Len(uploads')
  /\ uploads'[u].pc = "done"
  /\ (u > Len(uploads) \/ uploads[u].pc # "done")

\* C17: under every interleaving of uploads the index only grows at its end:
\* a step leaves it as it was or appends one record to it, and an upload
\* answered as a new record (200, not a duplicate) has persisted exactly the
\* index it found followed by its own record.
C17_AppendOnly ==
  [][/\ \/ db' = db
        \/ Len(db') = Len(db) + 1 /\ SubSeq(db', 1, Len(db)) = db
     /\ \A u \in 1..Len(uploads') :
          (/\ AnsweredNow(u)
           /\ uploads'[u].resp.status = 200
           /\ uploads'[u].resp.duplicate # "true") =>
            /\ Len(db') = Len(db) + 1
            /\ db' = Append(db, db'[Len(db')])
            /\ db'[Len(db')].id = uploads'[u].resp.id]_vars

\* C17 witness: two uploads overlapped and were inserted in the order in
\* which their hashes completed, the later arrival first, and both records
\* are in the index
C17_Witness ==
  /\ variant = "dedup"
  /\ Len(db) = 2
  /\ db[1].id > db[2].id
  /\ uploads[db[1].id].resp.duplicate = "false"
  /\ uploads[db[2].id].resp.duplicate = "false"

\* C18: an upload is answered {ok:true, id, duplicate:false} only in the step
\* that follows the end of its hash stream, when the hash of the whole
\* staged file is not in the index, and with the blob moved from the staging
\* path to the permanent path of id and a record with that id, hash and path
\* persisted.
C18_StepOrder ==
  [][\A u \in 1..Len(uploads') :
       (AnsweredNow(u) /\ uploads'[u].resp.duplicate = "false") =>
         LET id == uploads'[u].resp.id
             whole == Sha256(uploads'[u].content)
         IN /\ uploads'[u].resp.status = 200
            /\ u \in 1..Len(uploads) /\ uploads[u].pc = "hashing"
            /\ whole \notin IndexedHashes(db)
            /\ id \notin AllIds(db)
            /\ TempPath(u) \in DOMAIN files /\ TempPath(u) \notin DOMAIN files'
            /\ BlobPath(id) \in DOMAIN files'
            /\ files'[BlobPath(id)] = uploads'[u].content
            /\ \E i \in 1..Len(db') :
                 /\ db'[i].id = id
                 /\ db'[i].hash = whole
                 /\ db'[i].file_path = BlobPath(id)]_vars

\* C18 witness: an upload went through every step, and a later upload of
\* the same bytes was resolved to its record
C18_Witness ==
  \E u, v \in 1..Len(uploads) :
    /\ uploads[u].resp = Resp(200, u, "false")
    /\ BlobPath(u) \in DOMAIN files
    /\ TempPath(u) \notin DOMAIN files
    /\ \E i \in 1..Len(db) : db[i].id = u /\ db[i].hash = Sha256(uploads[u].content)
    /\ uploads[v].resp = Resp(200, u, "true")

\* the created_at of a stored record, in milliseconds
CreatedAtMs(rec) ==
  IF variant \in {"strict", "strictquery"} THEN DateParse(rec.created_at)[2]
  ELSE rec.created_at[2]

\* C19: in every state of the index a record inserted later has a
\* created_at at least that of every record inserted before it.
C19_CreatedAtMonotonic ==
  \A i, j \in 1..Len(db) :
    i < j => CreatedAtMs(db[i]) <= CreatedAtMs(db[j])

\* C19 witness: the upload that arrived first was inserted second, an hour
\* after the other, and carries the later created_at
C19_Witness ==
  /\ variant = "dedup"
  /\ Len(db) >= 2
  /\ db[1].id = 2 /\ db[2].id = 1
  /\ CreatedAtMs(db[1]) < CreatedAtMs(db[2])

\* C20: every upload receives a response, exactly one (an answered request
\* is never answered again), with status 200, 400 or 500, whatever hashing,
\* rename and writeDB do; an upload whose hash stream erred is answered 500
\* and adds no record.
C20_ExactlyOneResponse ==
  /\ [][\A u \in 1..Len(uploads') :
          /\ AnsweredNow(u) => uploads'[u].resp.status \in {200, 400, 500}
          /\ (u <= Len(uploads) /\ uploads[u].pc = "done") => uploads'[u] = uploads[u]
          /\ (u <= Len(uploads) /\ uploads[u].pc # "done" /\ uploads'[u].err = "hash") =>
               /\ uploads'[u].pc = "done"
               /\ uploads'[u].resp.status = 500
               /\ db' = db]_vars
  /\ \A u \in 1..MaxLiveUploads :
       (Len(uploads) >= u) ~> (Len(uploads) >= u /\ uploads[u].pc = "done")

\* C20 witness: one upload was refused for want of a file, one failed in
\* hashing and one was stored, and each holds its one response
C20_Witness ==
  \E u, v, w \in 1..Len(uploads) :
    /\ uploads[u].pc = "done" /\ uploads[u].err = "nofile" /\ uploads[u].resp.status = 400
    /\ uploads[v].pc = "done" /\ uploads[v].err = "hash" /\ uploads[v].resp.status = 500
    /\ uploads[w].pc = "done" /\ uploads[w].resp = Resp(200, w, "false")
    /\ Len(db) = 1

\* ------------------------------------------------------ upload, then fetch
\* The dedup revision receiving the same bytes again while blobs of indexed
\* records are removed out of band, and serving /media/:id.
MaxReuploads == 3

ReuploadContents == {Blob(1), Blob(2)}

InitReupload == InitWith({"dedup"})

NextReupload ==
  \/ /\ Len(uploads) < MaxReuploads
     /\ \E c \in ReuploadContents, b \in IngestBodies : UploadReceive(TRUE, c, b)
  \/ \E u \in 1..Len(uploads), renameOk \in BOOLEAN, writeOk \in BOOLEAN :
       UploadHashed(u, renameOk, writeOk)
  \/ \E i \in 1..Len(db) : RemoveBlob(i)
  \/ \E id \in 1..(Len(uploads) + 1) : MediaStart(id)
  \/ MediaSend

SpecReupload == InitReupload /\ [][NextReupload]_vars

\* C21: in the dedup revision, when an upload is answered {ok:true, id},
\* as a duplicate or not, the record with that id is in the index and its
\* blob is on disk at file_path as the response is sent.
C21_BlobExistsAtResponse ==
  [][\A u \in 1..Len(uploads') :
       (variant = "dedup" /\ AnsweredNow(u) /\ uploads'[u].resp.status = 200) =>
         \E i \in 1..Len(db') :
           /\ db'[i].id = uploads'[u].resp.id
           /\ db'[i].file_path \in DOMAIN files']_vars

\* C22: an upload answered 400 adds no record to the index and leaves the
\* upload directory as it was.
C22_RejectedChangesNothing ==
  [][\A u \in 1..Len(uploads') :
       (AnsweredNow(u) /\ uploads'[u].resp.status = 400) =>
         /\ db' = db
         /\ DOMAIN files' = DOMAIN files]_vars

====
